---- MODULE Spec2Model ----
(***************************************************************************)
(* The request handlers of main.py (the Meddy backend): /chat/,            *)
(* /cardio_view, /followup/, /health and /, the process-wide session slot  *)
(* (last_report_text, last_history_text) they share, the retrying invoker  *)
(* they call and the JSON coercion of the model's output.                  *)
(*                                                                         *)
(* Every handler is an `async def` whose body holds no await: on the event *)
(* loop a handler body runs from its first line to its return before any   *)
(* other handler body starts.  pc is the position of the one running       *)
(* handler; a new request is received only when none is running.           *)
(*                                                                         *)
(* Spec is the application serving any sequence of requests; FairSpec is   *)
(* the service of one request run to completion; SharedSpec is two callers *)
(* sending ingests and specialist views to the one process.                *)
(*                                                                         *)
(* Text is a sequence of tokens.  A token stands for the piece of text     *)
(* named in its definition, so that strip(), re.sub() and json.loads() are *)
(* computed on the text and not assumed.                                   *)
(***************************************************************************)
EXTENDS Naturals, Sequences, FiniteSets, TLC

VARIABLES
    last_report_text,   \* module global, line 15
    last_history_text,  \* module global, line 16
    pc,                 \* position of the running handler
    req,                \* the handler's parameters
    report_text,        \* local of chat_with_report
    prompt,             \* final_input / cardio_prompt / final_prompt / test_message
    attempts,           \* attempts made by the running invoke_with_retry call
    failures,           \* attempts of the running invoke_with_retry call that failed
    result,             \* the outcome of the invoke_with_retry call: the InvocationResult
    invokes,            \* invoke_with_retry calls made by this request
    response,           \* what invoke_with_retry returned
    raw_response,       \* local of chat_with_report and cardio_view
    cleaned,            \* local of chat_with_report and cardio_view
    structured,         \* local of chat_with_report and cardio_view
    exc,                \* the exception the handler's except clause caught
    reply,              \* the JSONResponse (or dict) the handler returned
    replies,            \* responses returned for this request
    pre_report,         \* history variable: last_report_text when the request arrived
    pre_history,        \* history variable: last_history_text when the request arrived
    prev,               \* history variable: the request served before this one
    wrote,              \* history variable: the session fields the running handler assigned
    same_ingest,        \* history variable: one handler run assigned both stored fields
    caller,             \* history variable: who sent the running request
    writer,             \* history variable: whose ingest reached line 55 last
    ingested,           \* history variable: per caller, the report text of their last ingest
    ingest_ok           \* history variable: an ingest has returned the success envelope

session == <<last_report_text, last_history_text>>
locals  == <<report_text, prompt, response, raw_response, cleaned, structured>>
invoker == <<attempts, failures, result, invokes>>
callers == <<caller, writer, ingested>>
history == <<pre_report, pre_history, prev, wrote, same_ingest, callers, ingest_ok>>
vars    == <<last_report_text, last_history_text, pc, req, report_text, prompt,
             attempts, failures, result, invokes, response, raw_response, cleaned, structured, exc,
             reply, replies, pre_report, pre_history, prev, wrote, same_ingest,
             caller, writer, ingested, ingest_ok>>

---------------------------------------------------------------------------
(* Text *)

\* Python's None for a text-valued name; no text the program handles holds this token.
None == <<"None">>

FENCE == "FENCE"    \* three backticks
TAG   == "json"     \* the language tag "json"
NL    == "NL"       \* a newline character
SP    == "SP"       \* a space character
OBJ   == "{}"       \* the text of a JSON object
LIST  == "[1]"      \* the text of a JSON array
NAN   == "NaN"      \* the text NaN, which json.loads reads as float('nan')
JUNK  == "Sorry"    \* prose, not JSON

Whitespace == {NL, SP}

\* bool(x) of a text or None: None and "" are falsy.
Truthy(x) == x # None /\ x # <<>>

RECURSIVE LStrip(_)
LStrip(s) == IF s # <<>> /\ Head(s) \in Whitespace THEN LStrip(Tail(s)) ELSE s

RECURSIVE RStrip(_)
RStrip(s) ==
    IF s # <<>> /\ s[Len(s)] \in Whitespace THEN RStrip(SubSeq(s, 1, Len(s) - 1)) ELSE s

\* str.strip()
Strip(s) == RStrip(LStrip(s))

\* "\n\n".join(pages)
RECURSIVE Join(_)
Join(pages) ==
    IF pages = <<>> THEN <<>>
    ELSE IF Len(pages) = 1 THEN pages[1]
    ELSE pages[1] \o <<NL, NL>> \o Join(Tail(pages))

---------------------------------------------------------------------------
(* Inputs *)

\* user_input values: empty, whitespace-only, and two questions.
UserInputs == { <<>>, <<SP>>, <<NL, SP>>, <<"Q">>, <<SP, "Q", NL>> }

\* medical_history values (Form("") default is the empty text).
Histories == { <<>>, <<"H">> }

\* Page texts extract() may return: no page, an empty page, one page, two pages.
PageLists == { <<>>, << <<>> >>, << <<"LDL">> >>, << <<"LDL">>, <<"HDL">> >> }

\* Texts the model chain may return.
ModelTexts ==
    { <<>>,
      <<OBJ>>,
      <<NL, OBJ, NL>>,
      <<FENCE, TAG, NL, OBJ, NL, FENCE>>,
      <<FENCE, NL, OBJ, NL, FENCE>>,
      <<FENCE, TAG, NL, OBJ>>,
      <<OBJ, NL, FENCE>>,
      <<FENCE, TAG, NL, JUNK, NL, FENCE>>,
      <<LIST>>,
      <<NAN>>,
      <<JUNK>>,
      <<JUNK, SP, OBJ>> }

\* The parameters of a request; a handler without a parameter gets the empty text.
Requests ==
    [op : {"chat"}, user_input : UserInputs, medical_history : Histories]
    \cup [op : {"followup"}, user_input : UserInputs, medical_history : {<<>>}]
    \cup [op : {"cardio_view", "health", "root"}, user_input : {<<>>},
          medical_history : {<<>>}]

NoReq      == [op |-> "none", user_input |-> <<>>, medical_history |-> <<>>]
NoPrompt   == [mode |-> "none"]
NoResponse == [returned |-> FALSE]
NoValue    == [type |-> "none"]
NoExc      == [type |-> "none"]
NoReply    == [status |-> "none"]
NoPrev     == [op |-> "none"]
NoResult   == [made |-> FALSE]

\* Two clients of the one process.  The handlers take no caller parameter: who sent a
\* request is known to the history variables only.
Callers  == {"A", "B"}
Anyone   == "anyone"
NoCaller == "nobody"

\* The requests of the two callers: ingests and specialist views.
SharedRequests ==
    { r \in Requests : r.op = "cardio_view" \/ (r.op = "chat" /\ r.user_input = <<"Q">>) }

---------------------------------------------------------------------------
(* The structured response coercion, lines 73-80 and 162-168 *)

\* re.sub(r"^```json|```$", "", s): the first alternative matches three backticks
\* and the tag json at the start of s, the second three backticks at the end of s.
\* A leading fence without the tag matches neither.
ReSub(s) ==
    LET lead == Len(s) >= 2 /\ s[1] = FENCE /\ s[2] = TAG
        s1   == IF lead THEN SubSeq(s, 3, Len(s)) ELSE s
        tail == s1 # <<>> /\ s1[Len(s1)] = FENCE
    IN  IF tail THEN SubSeq(s1, 1, Len(s1) - 1) ELSE s1

\* cleaned = re.sub(...,"", raw_response.strip()).strip()
Cleaned(raw) == Strip(ReSub(Strip(raw)))

\* The Python value json.loads makes of one JSON text.
JsonValue(tok) ==
    [type |-> CASE tok = OBJ -> "dict" [] tok = LIST -> "list" [] OTHER -> "float",
     text |-> tok]

\* json.loads(s): it skips surrounding whitespace, reads exactly one JSON text (NaN
\* is accepted and read as a float) and raises on anything else, extra data included.
Loads(s) ==
    LET t == Strip(s)
    IN  IF Len(t) = 1 /\ t[1] \in {OBJ, LIST, NAN}
        THEN [ok |-> TRUE, value |-> JsonValue(t[1])]
        ELSE [ok |-> FALSE]

\* {"unstructured": raw_response}
Fallback(raw) == [type |-> "dict", unstructured |-> raw]

\* try: structured = json.loads(cleaned) / except: structured = {"unstructured": raw_response}
Parse(text, raw) ==
    LET parsed == Loads(text)
    IN  IF parsed.ok THEN parsed.value ELSE Fallback(raw)

\* The coercion of a model output: lines 74-80 as one function of raw_response.
Coerce(raw) == Parse(Cleaned(raw), raw)

\* JSONResponse(content) renders its content with json.dumps(allow_nan=False), which
\* raises ValueError on a NaN float; every other value here is rendered.
Renderable(value) == value.type # "float"

---------------------------------------------------------------------------
(* The model chain's return value as the handlers read it *)

\* A dict with the key "text", or a dict without it.
ChainResults ==
    { [returned |-> TRUE, hasText |-> TRUE, text |-> t] : t \in ModelTexts }
    \cup { [returned |-> TRUE, hasText |-> FALSE, text |-> None] }

\* response.get("text", default)
Get(r, default) == IF r.hasText THEN r.text ELSE default

\* str(response)
Repr(r) == <<"repr">>

---------------------------------------------------------------------------
(* Prompts *)

\* final_input of chat_with_report, lines 63-67
GeneralPrompt(report, medical_history, user_input) ==
    [mode    |-> "general",
     report  |-> report,
     history |-> IF Truthy(medical_history) THEN medical_history ELSE <<"Not provided">>,
     query   |-> user_input]

\* cardio_prompt of cardio_view, lines 105-158: the history section is added only
\* when last_history_text is truthy.
CardioPrompt(report, hist) ==
    [mode       |-> "cardio",
     report     |-> report,
     hasHistory |-> Truthy(hist),
     history    |-> IF Truthy(hist) THEN hist ELSE <<>>]

\* final_prompt of followup_chat, lines 188-206
FollowupPrompt(user_input) == [mode |-> "followup", query |-> user_input]

\* test_message of health_check, line 227
PingPrompt == [mode |-> "ping"]

---------------------------------------------------------------------------
(* Exceptions and the error envelope *)

HTTPException(code, detail) ==
    [type |-> "HTTPException", status_code |-> code, detail |-> detail]

ExtractError == [type |-> "ExtractError"]   \* extract() or the join over its pages raised
InvokeError  == [type |-> "InvokeError"]    \* invoke_with_retry raised
RenderError  == [type |-> "ValueError"]     \* JSONResponse could not render its content

\* The test without strip(): not user_input
IsBlankUnstripped(user_input) == user_input = <<>>

\* not user_input.strip()
IsBlank(user_input) == Strip(user_input) = <<>>

\* JSONResponse({"status": "error", "error": str(e)}, status_code=500)
ErrorEnvelope(e) == [code |-> 500, status |-> "error", error |-> e]

\* JSONResponse({"status": "success", "structured_data": structured})
SuccessEnvelope(value) == [code |-> 200, status |-> "success", structured_data |-> value]

\* The handler returns r.
Return(r) ==
    /\ reply' = r
    /\ replies' = replies + 1
    /\ pc' = "responded"

\* The except clause raising again in place of returning the envelope.
ChatExceptReraises(e) ==
    /\ exc' = e
    /\ pc' = "fault"
    /\ UNCHANGED <<reply, replies>>

\* except Exception as e, lines 88-93
ChatExcept(e) == exc' = e /\ Return(ErrorEnvelope(e))

\* except Exception as e, lines 175-177
CardioExcept(e) == exc' = e /\ Return(ErrorEnvelope(e))

\* except Exception as e, lines 215-220
FollowupExcept(e) == exc' = e /\ Return(ErrorEnvelope(e))

\* except Exception as e, lines 243-250
HealthExcept(e) ==
    /\ exc' = e
    /\ Return([code |-> 500, status |-> "unhealthy", llm_status |-> "down", error |-> e])

\* The except clause of the running handler.
Except(e) ==
    CASE req.op = "chat"        -> ChatExcept(e)
      [] req.op = "cardio_view" -> CardioExcept(e)
      [] req.op = "followup"    -> FollowupExcept(e)
      [] OTHER                  -> HealthExcept(e)

---------------------------------------------------------------------------
(* The state after the module is loaded, and the arrival of a request *)

Init ==
    /\ last_report_text = None
    /\ last_history_text = None
    /\ pc = "idle"
    /\ req = NoReq
    /\ report_text = None
    /\ prompt = NoPrompt
    /\ attempts = 0
    /\ failures = 0
    /\ result = NoResult
    /\ invokes = 0
    /\ response = NoResponse
    /\ raw_response = None
    /\ cleaned = None
    /\ structured = NoValue
    /\ exc = NoExc
    /\ reply = NoReply
    /\ replies = 0
    /\ pre_report = None
    /\ pre_history = None
    /\ prev = NoPrev
    /\ wrote = {}
    /\ same_ingest = TRUE
    /\ caller = Anyone
    /\ writer = NoCaller
    /\ ingested = {}
    /\ ingest_ok = FALSE

\* What is remembered of the request that has just been served.
Served ==
    [op      |-> req.op,
     status  |-> reply.status,
     exc     |-> exc.type,
     report  |-> report_text,
     history |-> req.medical_history]

\* The event loop calls a handler with the parameters r, for a request that c sent.
Arrive(r, c) ==
    /\ pc' = "received"
    /\ req' = r
    /\ report_text' = None
    /\ prompt' = NoPrompt
    /\ attempts' = 0
    /\ failures' = 0
    /\ result' = NoResult
    /\ invokes' = 0
    /\ response' = NoResponse
    /\ raw_response' = None
    /\ cleaned' = None
    /\ structured' = NoValue
    /\ exc' = NoExc
    /\ reply' = NoReply
    /\ replies' = 0
    /\ pre_report' = last_report_text
    /\ pre_history' = last_history_text
    /\ prev' = IF pc = "idle" THEN NoPrev ELSE Served
    /\ wrote' = {}
    /\ caller' = c
    /\ UNCHANGED <<session, same_ingest, writer, ingested, ingest_ok>>

\* A handler body that suspends between line 55 and line 69: the event loop calls
\* the next handler while the ingest has assigned the report and not yet the history.
ReceiveDuringIngest ==
    \E r \in Requests :
        /\ pc \in {"idle", "responded", "report-stored"}
        /\ Arrive(r, Anyone)

\* A request arrives; no handler is running.  Who sent it is not told apart.
Receive ==
    \E r \in Requests :
        /\ pc \in {"idle", "responded"}
        /\ Arrive(r, Anyone)

\* One of the two callers sends an ingest or a specialist-view request.
SharedReceive ==
    \E c \in Callers, r \in SharedRequests :
        /\ pc \in {"idle", "responded"}
        /\ Arrive(r, c)

Running(op, at) == req.op = op /\ pc = at

---------------------------------------------------------------------------
(* invoke_with_retry, imported on line 3 from llm/llm_config.py *)

\* The fixed maximum number of attempts of one invoke_with_retry call.
MaxAttempts == 2

\* invoke_with_retry({"input": prompt}) is called: lines 71, 160, 208, 228.
CallInvoker ==
    /\ pc = "prompted"
    /\ pc' = "invoking"
    /\ invokes' = invokes + 1
    /\ attempts' = 0
    /\ failures' = 0
    /\ result' = NoResult
    /\ UNCHANGED <<session, req, locals, exc, reply, replies, history>>

\* Retrying however many attempts have failed.
InvokerRetryUnbounded ==
    /\ pc = "invoking"
    /\ attempts' = attempts + 1
    /\ failures' = failures + 1
    /\ UNCHANGED <<session, pc, req, locals, result, invokes, exc, reply, replies,
                   history>>

\* An attempt fails and another is allowed: the invoker retries.
InvokerRetry ==
    /\ pc = "invoking"
    /\ attempts + 1 < MaxAttempts
    /\ attempts' = attempts + 1
    /\ failures' = failures + 1
    /\ UNCHANGED <<session, pc, req, locals, result, invokes, exc, reply, replies,
                   history>>

\* The last allowed attempt fails: the outcome is a failed result that holds the
\* error description.  main.py tests no result for failure: the failed call reaches
\* the handler in its except clause, whose envelope carries the description.
InvokerExhausted ==
    /\ pc = "invoking"
    /\ attempts + 1 = MaxAttempts
    /\ attempts' = attempts + 1
    /\ failures' = failures + 1
    /\ result' = [made |-> TRUE, succeeded |-> FALSE, error |-> InvokeError]
    /\ Except(InvokeError)
    /\ UNCHANGED <<session, req, locals, invokes, history>>

\* An attempt succeeds: the call returns what the model chain returned.
InvokerReturns ==
    \E r \in ChainResults :
        /\ pc = "invoking"
        /\ attempts < MaxAttempts
        /\ attempts' = attempts + 1
        /\ result' = [made |-> TRUE, succeeded |-> TRUE, raw_text |-> r.text]
        /\ response' = r
        /\ pc' = "invoked"
        /\ UNCHANGED <<session, req, report_text, prompt, raw_response, cleaned,
                       structured, failures, invokes, exc, reply, replies, history>>

-----
(* chat_with_report, lines 32-93 *)

\* if not user_input.strip(): raise HTTPException(400), lines 42-43
ChatValidate ==
    /\ Running("chat", "received")
    /\ IF IsBlank(req.user_input)
       THEN Except(HTTPException(400, "User input cannot be empty"))
       ELSE pc' = "validated" /\ UNCHANGED <<exc, reply, replies>>
    /\ UNCHANGED <<session, req, locals, invoker, history>>

\* The ingest clearing the stored report before it extracts the new one.
ChatExtractClearsFirst ==
    /\ Running("chat", "validated")
    /\ \/ /\ Except(ExtractError)
          /\ last_report_text' = None
          /\ UNCHANGED <<last_history_text, report_text>>
       \/ \E pages \in PageLists :
            /\ report_text' = Join(pages)
            /\ pc' = "extracted"
            /\ UNCHANGED <<session, exc, reply, replies>>
    /\ UNCHANGED <<req, prompt, response, raw_response, cleaned, structured, invoker,
                   history>>

\* parsed_result = extract(tmp_path); report_text = "\n\n".join(...), lines 46-53
ChatExtract ==
    /\ Running("chat", "validated")
    /\ \/ /\ Except(ExtractError)
          /\ UNCHANGED report_text
       \/ \E pages \in PageLists :
            /\ report_text' = Join(pages)
            /\ pc' = "extracted"
            /\ UNCHANGED <<exc, reply, replies>>
    /\ UNCHANGED <<session, req, prompt, response, raw_response, cleaned, structured,
                   invoker, history>>

\* The report text assigned only while the slot is empty: the first ingest wins.
ChatStoreReportOnce ==
    /\ Running("chat", "extracted")
    /\ last_report_text' = IF last_report_text = None THEN report_text ELSE last_report_text
    /\ pc' = "report-stored"
    /\ wrote' = wrote \cup {"report"}
    /\ same_ingest' = ("history" \in wrote)
    /\ writer' = caller
    /\ ingested' = {i \in ingested : i[1] # caller} \cup {<<caller, report_text>>}
    /\ UNCHANGED <<last_history_text, req, locals, invoker, exc, reply, replies,
                   pre_report, pre_history, prev, caller, ingest_ok>>

\* The report text assigned only when it is not empty: if report_text: ...
ChatStoreReportIfText ==
    /\ Running("chat", "extracted")
    /\ last_report_text' = IF Truthy(report_text) THEN report_text ELSE last_report_text
    /\ pc' = "report-stored"
    /\ wrote' = IF Truthy(report_text) THEN wrote \cup {"report"} ELSE wrote
    /\ same_ingest' = ("history" \in wrote)
    /\ writer' = caller
    /\ ingested' = {i \in ingested : i[1] # caller} \cup {<<caller, report_text>>}
    /\ UNCHANGED <<last_history_text, req, locals, invoker, exc, reply, replies,
                   pre_report, pre_history, prev, caller, ingest_ok>>

\* The ingest going on without assigning the report text.
ChatStoreReportDeferred ==
    /\ Running("chat", "extracted")
    /\ pc' = "report-stored"
    /\ UNCHANGED <<session, req, locals, invoker, exc, reply, replies, history>>

\* last_report_text = report_text, line 55 (the temporary file's removal, lines
\* 57-60, cannot fail the request)
ChatStoreReport ==
    /\ Running("chat", "extracted")
    /\ last_report_text' = report_text
    /\ pc' = "report-stored"
    /\ wrote' = wrote \cup {"report"}
    /\ same_ingest' = ("history" \in wrote)
    /\ writer' = caller
    /\ ingested' = {i \in ingested : i[1] # caller} \cup {<<caller, report_text>>}
    /\ UNCHANGED <<last_history_text, req, locals, invoker, exc, reply, replies,
                   pre_report, pre_history, prev, caller, ingest_ok>>

\* final_input = ..., lines 63-67
ChatBuildPrompt ==
    /\ Running("chat", "report-stored")
    /\ prompt' = GeneralPrompt(report_text, req.medical_history, req.user_input)
    /\ pc' = "prompt-built"
    /\ UNCHANGED <<session, req, report_text, response, raw_response, cleaned,
                   structured, invoker, exc, reply, replies, history>>

\* The history stored only after the model chain has answered: not on this path.
ChatStoreHistoryDeferred ==
    /\ Running("chat", "prompt-built")
    /\ pc' = "prompted"
    /\ UNCHANGED <<session, req, locals, invoker, exc, reply, replies, history>>

\* last_history_text = medical_history, line 69
ChatStoreHistory ==
    /\ Running("chat", "prompt-built")
    /\ last_history_text' = req.medical_history
    /\ pc' = "prompted"
    /\ wrote' = wrote \cup {"history"}
    /\ same_ingest' = ("report" \in wrote)
    /\ UNCHANGED <<last_report_text, req, locals, invoker, exc, reply, replies,
                   pre_report, pre_history, prev, callers, ingest_ok>>

\* raw_response = (...).get("text", ""); cleaned = re.sub(...).strip(), lines 71-74
ChatClean ==
    /\ Running("chat", "invoked")
    /\ raw_response' = Get(response, <<>>)
    /\ cleaned' = Cleaned(Get(response, <<>>))
    /\ pc' = "cleaned"
    /\ UNCHANGED <<session, req, report_text, prompt, response, structured, invoker,
                   exc, reply, replies, history>>

\* try: structured = json.loads(cleaned) / except: the fallback, lines 76-80
ChatParse ==
    /\ Running("chat", "cleaned")
    /\ structured' = Parse(cleaned, raw_response)
    /\ pc' = "coerced"
    /\ UNCHANGED <<session, req, report_text, prompt, response, raw_response, cleaned,
                   invoker, exc, reply, replies, history>>

\* return JSONResponse({"status": "success", "structured_data": structured}), lines
\* 82-86, inside the try
ChatRespond ==
    /\ Running("chat", "coerced")
    /\ IF Renderable(structured)
       THEN Return(SuccessEnvelope(structured)) /\ UNCHANGED exc
       ELSE Except(RenderError)
    /\ ingest_ok' = (ingest_ok \/ Renderable(structured))
    /\ UNCHANGED <<session, req, locals, invoker, pre_report, pre_history, prev, wrote,
                   same_ingest, callers>>

---------------------------------------------------------------------------
(* cardio_view, lines 95-177 *)

\* if not last_report_text: raise HTTPException(400), lines 101-102
CardioValidate ==
    /\ Running("cardio_view", "received")
    /\ IF ~Truthy(last_report_text)
       THEN Except(HTTPException(400, "No report available. Upload a report first."))
       ELSE pc' = "validated" /\ UNCHANGED <<exc, reply, replies>>
    /\ UNCHANGED <<session, req, locals, invoker, history>>

\* The view taking the report out of the session as it reads it.
CardioBuildPromptConsumes ==
    /\ Running("cardio_view", "validated")
    /\ prompt' = CardioPrompt(last_report_text, last_history_text)
    /\ pc' = "prompted"
    /\ last_report_text' = None
    /\ last_history_text' = None
    /\ UNCHANGED <<req, report_text, response, raw_response, cleaned,
                   structured, invoker, exc, reply, replies, history>>

\* combined_input and cardio_prompt, lines 105-158
CardioBuildPrompt ==
    /\ Running("cardio_view", "validated")
    /\ prompt' = CardioPrompt(last_report_text, last_history_text)
    /\ pc' = "prompted"
    /\ UNCHANGED <<session, req, report_text, response, raw_response, cleaned,
                   structured, invoker, exc, reply, replies, history>>

\* raw_response = (...).get("text", ""); cleaned = re.sub(...).strip(), lines 160-163
CardioClean ==
    /\ Running("cardio_view", "invoked")
    /\ raw_response' = Get(response, <<>>)
    /\ cleaned' = Cleaned(Get(response, <<>>))
    /\ pc' = "cleaned"
    /\ UNCHANGED <<session, req, report_text, prompt, response, structured, invoker,
                   exc, reply, replies, history>>

\* try: structured = json.loads(cleaned) / except: the fallback, lines 164-168
CardioParse ==
    /\ Running("cardio_view", "cleaned")
    /\ structured' = Parse(cleaned, raw_response)
    /\ pc' = "coerced"
    /\ UNCHANGED <<session, req, report_text, prompt, response, raw_response, cleaned,
                   invoker, exc, reply, replies, history>>

\* return JSONResponse({"status": "success", "structured_data": structured}), lines
\* 170-173, inside the try
CardioRespond ==
    /\ Running("cardio_view", "coerced")
    /\ IF Renderable(structured)
       THEN Return(SuccessEnvelope(structured)) /\ UNCHANGED exc
       ELSE Except(RenderError)
    /\ UNCHANGED <<session, req, locals, invoker, history>>

---------------------------------------------------------------------------
(* followup_chat, lines 179-220 *)

\* if not user_input.strip(): raise HTTPException(400), lines 184-185
FollowupValidate ==
    /\ Running("followup", "received")
    /\ IF IsBlank(req.user_input)
       THEN Except(HTTPException(400, "Follow-up input cannot be empty"))
       ELSE pc' = "validated" /\ UNCHANGED <<exc, reply, replies>>
    /\ UNCHANGED <<session, req, locals, invoker, history>>

\* final_prompt = ..., lines 188-206
FollowupBuildPrompt ==
    /\ Running("followup", "validated")
    /\ prompt' = FollowupPrompt(req.user_input)
    /\ pc' = "prompted"
    /\ UNCHANGED <<session, req, report_text, response, raw_response, cleaned,
                   structured, invoker, exc, reply, replies, history>>

\* return JSONResponse({"status": "success", "response": response.get("text",
\* str(response))}), lines 210-213
FollowupRespond ==
    /\ Running("followup", "invoked")
    /\ Return([code |-> 200, status |-> "success",
               response |-> Get(response, Repr(response))])
    /\ UNCHANGED <<session, req, locals, invoker, exc, history>>

---------------------------------------------------------------------------
(* health_check, lines 222-250 *)

\* test_message = "ping", line 227
HealthBuildPrompt ==
    /\ Running("health", "received")
    /\ prompt' = PingPrompt
    /\ pc' = "prompted"
    /\ UNCHANGED <<session, req, report_text, response, raw_response, cleaned,
                   structured, invoker, exc, reply, replies, history>>

\* if test_response and "text" in test_response: a dict that holds the key "text" is
\* not empty, so the test is whether the key is there, whatever its value.
HealthClassify(r) ==
    IF r.hasText
    THEN [code |-> 200, status |-> "healthy", llm_status |-> "responsive"]
    ELSE [code |-> 206, status |-> "degraded", llm_status |-> "unresponsive"]

\* lines 229-242
HealthRespond ==
    /\ Running("health", "invoked")
    /\ Return(HealthClassify(response))
    /\ UNCHANGED <<session, req, locals, invoker, exc, history>>

---------------------------------------------------------------------------
(* root, lines 28-30 *)

RootRespond ==
    /\ Running("root", "received")
    /\ Return([code |-> 200, status |-> "live"])
    /\ UNCHANGED <<session, req, locals, invoker, exc, history>>

---------------------------------------------------------------------------
(* The system *)

\* A step of the running handler.
IngestStep ==
    \/ ChatValidate \/ ChatExtract \/ ChatStoreReport \/ ChatBuildPrompt
    \/ ChatStoreHistory \/ ChatClean \/ ChatParse \/ ChatRespond

ViewStep ==
    \/ CardioValidate \/ CardioBuildPrompt \/ CardioClean \/ CardioParse
    \/ CardioRespond

InvokerStep == CallInvoker \/ InvokerRetry \/ InvokerExhausted \/ InvokerReturns

HandlerStep ==
    \/ IngestStep
    \/ ViewStep
    \/ FollowupValidate \/ FollowupBuildPrompt \/ FollowupRespond
    \/ HealthBuildPrompt \/ HealthRespond
    \/ RootRespond
    \/ InvokerStep

Next == Receive \/ HandlerStep

Spec == Init /\ [][Next]_vars

\* Two callers share the process: each request is an ingest or a specialist view of
\* caller A or of caller B.
SharedNext == SharedReceive \/ IngestStep \/ ViewStep \/ InvokerStep

SharedSpec == Init /\ [][SharedNext]_vars

\* The session between two requests: empty, or what an ingest stored.
SessionStates ==
    { <<None, None>> } \cup { <<Join(p), h>> : p \in PageLists, h \in Histories }

\* The service of one request, from any session the program reaches between requests.
InitServing ==
    /\ \E s \in SessionStates : last_report_text = s[1] /\ last_history_text = s[2]
    /\ pc = "idle"
    /\ req = NoReq
    /\ report_text = None
    /\ prompt = NoPrompt
    /\ attempts = 0
    /\ failures = 0
    /\ result = NoResult
    /\ invokes = 0
    /\ response = NoResponse
    /\ raw_response = None
    /\ cleaned = None
    /\ structured = NoValue
    /\ exc = NoExc
    /\ reply = NoReply
    /\ replies = 0
    /\ pre_report = None
    /\ pre_history = None
    /\ prev = NoPrev
    /\ wrote = {}
    /\ same_ingest = TRUE
    /\ caller = Anyone
    /\ writer = IF last_report_text = None THEN NoCaller ELSE Anyone
    /\ ingested = IF last_report_text = None THEN {} ELSE {<<Anyone, last_report_text>>}
    /\ ingest_ok \in IF last_report_text = None THEN {FALSE} ELSE BOOLEAN

ReceiveOne == pc = "idle" /\ Receive

NextServing == ReceiveOne \/ HandlerStep

\* A running handler body runs to its return: Python executes it statement by
\* statement and nothing suspends it.
FairSpec == InitServing /\ [][NextServing]_vars /\ WF_vars(HandlerStep)

\* Between two requests the session is one of SessionStates, and each is reached.
BetweenRequests == pc \in {"idle", "responded"} => session \in SessionStates

---------------------------------------------------------------------------
(* Properties *)

\* The request is a caller input error: a specialist view while no report has been
\* ingested, or a chat or follow-up whose user_input is empty or whitespace-only.
CallerError ==
    \/ req.op = "cardio_view" /\ pre_report = None
    \/ req.op \in {"chat", "followup"} /\ Strip(req.user_input) = <<>>

\* C1: a request rejected as a caller input error makes no invoke_with_retry call.
C1_NoInvocationOnCallerError == CallerError => invokes = 0

C1_Witness ==
    /\ pc = "responded"
    /\ req.op = "followup"
    /\ req.user_input = <<NL, SP>>
    /\ exc.type = "HTTPException"
    /\ invokes = 0

\* C2: a caller input error is answered with status code 400.
C2_CallerErrorIs400 == (pc = "responded" /\ CallerError) => reply.code = 400

\* C3: a chat request with non-empty user_input whose extraction fails leaves the
\* session as it was when the request arrived.
C3_FailedExtractionKeepsSession ==
    (pc = "responded" /\ req.op = "chat" /\ exc.type = "ExtractError")
        => /\ Strip(req.user_input) # <<>>
           /\ last_report_text = pre_report
           /\ last_history_text = pre_history

C3_Witness ==
    /\ pc = "responded"
    /\ req.op = "chat"
    /\ exc.type = "ExtractError"
    /\ pre_report = <<"LDL">>
    /\ pre_history = <<"H">>
    /\ req.medical_history = <<>>

\* The request served before this one was an ingest that returned success.
AfterSuccessfulIngest == prev.op = "chat" /\ prev.status = "success"

\* C4: the specialist view that follows a successful ingest passes validation and
\* builds its prompt from the report text and history that ingest stored.
C4_ViewAfterIngestUsesIt ==
    (pc = "responded" /\ req.op = "cardio_view" /\ AfterSuccessfulIngest)
        => /\ exc.type # "HTTPException"
           /\ prompt = CardioPrompt(prev.report, prev.history)

C6_MappingOrFallback ==
    (pc = "responded" /\ req.op \in {"chat", "cardio_view"} /\ reply.status = "success")
        => LET parsed  == Loads(Cleaned(raw_response))
               mapping == parsed.ok /\ parsed.value.type = "dict"
           IN  IF mapping
               THEN reply.structured_data = parsed.value
               ELSE reply.structured_data = Fallback(raw_response)

\* The text has no fence marker.
NoFence(raw) == \A i \in 1..Len(raw) : raw[i] # FENCE

\* The text, trimmed, is wrapped in a leading fence marker, with or without the tag,
\* and a trailing one.
IsFenced(raw) ==
    LET s == Strip(raw)
    IN  Len(s) >= 2 /\ s[1] = FENCE /\ s[Len(s)] = FENCE

\* What the fence markers of a wrapped text enclose.
Inner(raw) ==
    LET s == Strip(raw)
    IN  IF Len(s) >= 3 /\ s[2] = TAG
        THEN SubSeq(s, 3, Len(s) - 1)
        ELSE SubSeq(s, 2, Len(s) - 1)

\* C7: fence-stripping leaves a text without fence markers as it is, and a text
\* wrapped in a fence pair, tagged or not, coerces to what the wrapped text coerces to.
C7_FenceRoundTrip ==
    (pc = "coerced")
        => /\ NoFence(raw_response) => Cleaned(raw_response) = Strip(raw_response)
           /\ (IsFenced(raw_response) /\ Loads(Inner(raw_response)).ok)
                 => structured = Loads(Inner(raw_response)).value

\* C8: the health check answers 500 unhealthy when the model-chain call fails, 206
\* degraded when it returns empty text or no text, 200 healthy otherwise.
C8_HealthLevels ==
    (pc = "responded" /\ req.op = "health")
        => IF exc.type = "InvokeError"
           THEN reply.code = 500 /\ reply.status = "unhealthy"
           ELSE IF ~response.hasText \/ response.text = <<>>
           THEN reply.code = 206 /\ reply.status = "degraded"
           ELSE reply.code = 200 /\ reply.status = "healthy"

\* C9: whenever the model-chain call of a chat or specialist-view request returns,
\* the response is 200 with status success, whatever the returned text.
C9_ReturnedTextIsSuccess ==
    (pc = "responded" /\ req.op \in {"chat", "cardio_view"} /\ response.returned)
        => reply.code = 200 /\ reply.status = "success"

\* A handler is running.
InFlight == pc \notin {"idle", "responded"}

\* C10: every request reaches the responded state with exactly one response, and no
\* handler ends in an unhandled fault.
C10_EveryRequestResponds ==
    /\ InFlight ~> (pc = "responded" /\ replies = 1 /\ reply # NoReply)
    /\ [](pc # "fault")
    /\ [](replies <= 1)

C10_Witness ==
    /\ pc = "responded"
    /\ exc.type = "InvokeError"
    /\ attempts = MaxAttempts
    /\ replies = 1

\* C11: the report text and the history a specialist view reads are the stored pair,
\* and one run of the ingest handler assigned both: never the report of one ingest
\* with the history of another, or with the history from before that ingest.
C11_ViewReadsOnePair ==
    (req.op = "cardio_view" /\ prompt # NoPrompt)
        => /\ same_ingest
           /\ prompt = CardioPrompt(last_report_text, last_history_text)

C11_Witness ==
    /\ req.op = "cardio_view"
    /\ pc = "prompted"
    /\ prev.op = "chat"
    /\ pre_report = <<"LDL">>
    /\ pre_history = <<"H">>
    /\ prompt = CardioPrompt(<<"LDL">>, <<"H">>)
    /\ same_ingest

\* The running ingest has assigned both session fields from its own values.
SessionUpdated ==
    /\ wrote = {"report", "history"}
    /\ last_report_text = report_text
    /\ last_history_text = req.medical_history

\* C12: in an ingest the stages happen in the order extracted, session-updated,
\* prompted, invoked, coerced, responded: the prompt is built only once both session
\* fields are assigned, the model chain is invoked only after the session update and
\* the prompt, and a failure at a stage skips every later stage.
C12_StagesInOrder ==
    req.op = "chat"
        => /\ wrote # {} => report_text # None
           /\ prompt # NoPrompt => SessionUpdated
           /\ invokes > 0 => (SessionUpdated /\ prompt # NoPrompt)
           /\ structured # NoValue => (response.returned /\ invokes = 1)
           /\ reply.status = "success" => structured # NoValue
           /\ exc.type = "HTTPException"
                 => (report_text = None /\ wrote = {} /\ prompt = NoPrompt /\ invokes = 0)
           /\ exc.type = "ExtractError"
                 => (wrote = {} /\ prompt = NoPrompt /\ invokes = 0)
           /\ exc.type = "InvokeError"
                 => (~response.returned /\ structured = NoValue)
           /\ exc # NoExc => reply.status = "error"

\* C12, amended: the report text is assigned before the prompt is built and the
\* history before the model chain is invoked; the remaining order is as claimed, and
\* a failure at a stage skips every later stage.
C12_StagesInCodeOrder ==
    req.op = "chat"
        => /\ wrote # {} => report_text # None
           /\ prompt # NoPrompt => ("report" \in wrote /\ last_report_text = report_text)
           /\ invokes > 0 => (SessionUpdated /\ prompt # NoPrompt)
           /\ structured # NoValue => (response.returned /\ invokes = 1)
           /\ reply.status = "success" => structured # NoValue
           /\ exc.type = "HTTPException"
                 => (report_text = None /\ wrote = {} /\ prompt = NoPrompt /\ invokes = 0)
           /\ exc.type = "ExtractError"
                 => (wrote = {} /\ prompt = NoPrompt /\ invokes = 0)
           /\ exc.type = "InvokeError"
                 => (~response.returned /\ structured = NoValue)
           /\ exc # NoExc => reply.status = "error"

C12_Witness ==
    /\ pc = "responded"
    /\ req.op = "chat"
    /\ reply.status = "success"
    /\ SessionUpdated
    /\ pre_report = <<"LDL">>
    /\ report_text = <<"LDL", NL, NL, "HDL">>
    /\ pre_history # req.medical_history

\* C13: in every reachable state a session that holds a history (last_history_text
\* is not None) holds a report (last_report_text is not None).
C13_HistoryImpliesReport == last_history_text # None => last_report_text # None

C13_Witness ==
    /\ pc = "prompted"
    /\ req.op = "chat"
    /\ pre_report = None
    /\ pre_history = None
    /\ last_report_text = <<>>
    /\ last_history_text = <<"H">>

\* C14: once an ingest has stored a report no request empties the session again, and
\* after a successful ingest, whatever requests followed it, a specialist view is
\* not rejected with the 'no report available' caller error.
C14_StoredReportStaysAvailable ==
    /\ writer # NoCaller => last_report_text # None
    /\ (ingest_ok /\ req.op = "cardio_view")
          => exc # HTTPException(400, "No report available. Upload a report first.")

\* C15: a specialist-view, follow-up, health-check or root request assigns no session
\* field: at every point of its handler, failed or not, last_report_text and
\* last_history_text are what they were when the request arrived.
C15_OnlyIngestWrites ==
    req.op \in {"cardio_view", "followup", "health", "root"}
        => /\ wrote = {}
           /\ last_report_text = pre_report
           /\ last_history_text = pre_history

C15_Witness ==
    /\ pc = "responded"
    /\ req.op = "cardio_view"
    /\ exc.type = "InvokeError"
    /\ prev.op = "followup"
    /\ prev.status = "success"
    /\ last_report_text = <<"LDL">>
    /\ last_history_text = <<"H">>

\* C16: with two callers on the one slot the last write wins and callers are not
\* isolated: the stored report is the report of the ingest that reached its write
\* last, whoever sent it, and a specialist view, whoever sends it, builds its prompt
\* from that report.  (C16_Witness is the interleaving the claim names.)
C16_LastWriteWins ==
    /\ writer = NoCaller => last_report_text = None
    /\ writer # NoCaller => <<writer, last_report_text>> \in ingested
    /\ (req.op = "cardio_view" /\ prompt # NoPrompt)
          => <<writer, prompt.report>> \in ingested

\* A ingested RA, B then ingested RB, and the view A sends next is built from RB.
C16_Witness ==
    /\ caller = "A"
    /\ req.op = "cardio_view"
    /\ pc = "prompted"
    /\ writer = "B"
    /\ ingested = { <<"A", <<"LDL">> >>, <<"B", <<"LDL", NL, NL, "HDL">> >> }
    /\ prompt.report = <<"LDL", NL, NL, "HDL">>

====
